---- MODULE Spec2Model ----
(***************************************************************************)
(* Model of @mxweb/react-hooks.                                            *)
(*                                                                         *)
(*   SpecEvents : combineEvents (use-combine-events), the sequential       *)
(*                event-handler chain, on a JavaScript event loop with a   *)
(*                microtask queue and a zero-delay timer queue.            *)
(*   SpecEvaluate : matching / safeMatch (use-media-query), the condition  *)
(*                evaluator, applied to one query in one environment.      *)
(*   SpecEquals : isEqual (use-media-query) applied to two results.        *)
(*   SpecMedia : useMediaQuery (use-media-query), one subscriber under     *)
(*                React's render / effect cycle and resize notifications.  *)
(***************************************************************************)
EXTENDS Integers, Sequences, FiniteSets, TLC

(***************************************************************************)
(* Bounds                                                                  *)
(***************************************************************************)
\* number of distinct handler references h1..hN
NumHandlers == 2
\* longest argument list given to combineEvents
MaxLen == 3
\* number of distinct condition strings (media queries)
NumConds == 2
\* number of distinct names a named condition mapping can use
NumNames == 2
\* most keys of a mapping a component passes to useMediaQuery
MaxKeys == 1
\* most setIsMatch updates queued between two renders
MaxPending == 1
\* longest argument list given to a wrapper hook, to a plain combinator, or
\* to combineEvents when its handler is called twice
MaxArgs == 2
\* most renders of a component using a wrapper hook
MaxRenders == 3
\* number of distinct function refs, and of distinct ref objects
NumRefs == 2
\* most open / close / toggle calls made on one useDisclosure
MaxOps == 4

(***************************************************************************)
(* combineEvents: values                                                   *)
(***************************************************************************)
\* the callbacks are `Callback<Args> | undefined | null`: a handler reference
\* is a positive number, the two absent values are distinct Set members
NullEntry == 0
UndefinedEntry == 0 - 1

Handlers == 1..NumHandlers
Entries == Handlers \cup {NullEntry, UndefinedEntry}

\* `if (callback)`: null and undefined are falsy, a function is truthy
TruthyUnlessUndefined(entry) == entry # UndefinedEntry
Truthy(entry) == entry \in Handlers

\* the calls of the combined handler: one call, or two calls in flight together
OneCall == {1}
TwoCalls == {1, 2}

\* the first call argument args[0]: absent (undefined), or an object that has
\* or has not an own property "defaultPrevented", with a truthy or falsy value
NoEvent == [kind |-> "undefined", own |-> FALSE, dp |-> FALSE]
EventArgs ==
  {NoEvent} \cup
  {[kind |-> "object", own |-> FALSE, dp |-> FALSE]} \cup
  {[kind |-> "object", own |-> TRUE, dp |-> d] : d \in BOOLEAN}

\* what one call of a handler does: it may assign event.defaultPrevented = true
\* before it returns, and it returns a plain value, throws, or returns a
\* pending promise
SyncOutcomes == {"value", "throw", "promise"}
\* how a pending promise returned by a handler settles; the handler may assign
\* event.defaultPrevented = true before it settles
SettleOutcomes == {"resolve", "reject"}

AllLists(n) == UNION {[1..k -> Entries] : k \in 0..n}

(***************************************************************************)
(* use-media-query: values                                                 *)
(***************************************************************************)
Conds == 1..NumConds
Names == 1..NumNames

\* what window.matchMedia(q).matches does for a condition string
MatchOutcomes == {"match", "nomatch", "throws"}

\* the display environment: is there a window, has it an own property
\* matchMedia (what hasOwnProperty.call(window, "matchMedia") tests), and
\* what the query call does for each condition string
Envs ==
  [window : BOOLEAN, matchMedia : BOOLEAN, res : [Conds -> MatchOutcomes]]

\* sequences of k entries with pairwise distinct names (the keys of an object,
\* in Object.keys order)
KeyedSeqs(vals) ==
  UNION {{m \in [1..k -> [name : Names, val : vals]] :
            \A a, b \in 1..k : a # b => m[a].name # m[b].name} : k \in 0..NumNames}

\* MediaQuery = string | Record<string, string>
StringQuery(c) == [kind |-> "string", s |-> c, m |-> <<>>]
MappingQuery(m) == [kind |-> "mapping", s |-> 0, m |-> m]
Queries ==
  {StringQuery(c) : c \in Conds} \cup {MappingQuery(m) : m \in KeyedSeqs(Conds)}

\* what useBreakpointValue passes on besides a string or a mapping: a number,
\* undefined or null (cast to the query type)
NumberQuery(n) == [kind |-> "number", s |-> n, m |-> <<>>]
UndefinedQuery == [kind |-> "undefined", s |-> 0, m |-> <<>>]
NullQuery == [kind |-> "null", s |-> 0, m |-> <<>>]

\* MediaMatchResult = boolean | { [Key]: boolean }
BooleanResult(b) == [kind |-> "boolean", b |-> b, m |-> <<>>]
ObjectResult(m) == [kind |-> "object", b |-> FALSE, m |-> m]
Results ==
  {BooleanResult(b) : b \in BOOLEAN} \cup {ObjectResult(m) : m \in KeyedSeqs(BOOLEAN)}
\* in place of a result: the render threw instead of returning one
RenderThrew == [kind |-> "error", b |-> FALSE, m |-> <<>>]

VARIABLES
  env,         \* the display environment
  query,       \* the query given to the evaluator (or to the hook's last render)
  result,      \* SpecEvaluate: what matching(query) produced
  evaluated,   \* SpecEvaluate: matching(query) has been called
  cmpA, cmpB,  \* SpecEquals: the two results given to isEqual
  cmpOut,      \* SpecEquals: what isEqual returned
  compared     \* SpecEquals: isEqual has been called

pureVars == <<result, evaluated, cmpA, cmpB, cmpOut, compared>>
envVars == <<env, query>>

VARIABLES
  mounted,     \* useMediaQuery: the subscriber (component) is mounted
  isMatch,     \* useMediaQuery: the state held by useState
  rendered,    \* useMediaQuery: the isMatch the last render returned
  pending,     \* useMediaQuery: setIsMatch updates queued since the last render
  effectDue,   \* useMediaQuery: the last render changed a dependency and its
               \* effect has not run yet
  listeners,   \* the resize listeners registered on window, oldest first;
               \* each is a handleResize closure over a render's query and isMatch
  hasCleanup,  \* useMediaQuery: the effect that ran last returned a cleanup
  resubscribed \* an effect has removed a listener and attached another

mediaVars == <<mounted, isMatch, rendered, pending, effectDue, listeners, hasCleanup,
               resubscribed>>

VARIABLES
  callbacks,   \* the argument list captured by combineEvents(...callbacks)
  phase,       \* per invocation: where the chain stands
  queue,       \* per invocation: uniqueCallbacks, in Set iteration order
  ev,          \* per invocation: args[0]
  calls,       \* per invocation: the handlers invoked, in order, each with
               \* what its call did (returned a value, threw, returned a promise)
  active,      \* per invocation: handlers invoked whose result has not settled
  ret,         \* per invocation: what combinedCallback gave its caller
  failure,     \* per invocation: the handler whose error ended the chain, or 0
  unhandled,   \* per invocation: error left in a promise nobody observes, or 0
  preventedAt, \* per invocation: how many handlers had been invoked when a
               \* handler first made the cancellation flag truthy, or 0
  steps,       \* per invocation: the entries dequeued, each with the kind of
               \* task ("call" or "timer") whose stack ran that execute()
  micro,       \* the microtask queue (then-callbacks ready to run)
  timers       \* the zero-delay timer queue (setTimeout(execute, 0))

evVars == <<callbacks, phase, queue, ev, calls, active, ret, failure, unhandled,
            preventedAt, steps, micro, timers>>

VARIABLES
  hook,        \* which memoized wrapper the component uses
  hookArgs,    \* the arguments of the wrapper in the latest render
  allocated,   \* how many objects (arrays, functions) have been created
  memo,        \* useMemo's cell: <<>> before the first render, then one
               \* record of the dependency list and the value kept with it
  renders,     \* how many times the component has rendered
  returned,    \* the combined handler the latest render returned (its identity)
  prevReturned, \* the combined handler the render before it returned
  sameArgs     \* the latest render's arguments were element-wise identical
               \* to those of the render before it

memoVars == <<hook, hookArgs, allocated, memo, renders, returned, prevReturned,
              sameArgs>>

VARIABLES
  cbList,      \* the argument list captured by combineCallback(...callbacks)
  cbArgs,      \* the arguments the combined callback was called with
  cbLog,       \* the callbacks invoked by that call, in order, each with the
               \* arguments it received and what its call did
  cbPending,   \* positions of cbLog whose returned promise has not settled
  cbRejected,  \* positions of cbLog whose returned promise rejected
  cbDone       \* "idle" before the call, then how the combined callback
               \* ended: "returned" or "threw"

cbVars == <<cbList, cbArgs, cbLog, cbPending, cbRejected, cbDone>>

VARIABLES
  refList,     \* the argument list captured by combineRefs(...refs)
  refCurrent,  \* the `current` of every ref object that exists
  refInstance, \* the instance given to the latest call of the combined ref
  refLog,      \* the function refs that call invoked, in order, each with the
               \* argument it received and what its call did
  refDone      \* how the latest call of the combined ref ended, "idle" before

refVars == <<refList, refCurrent, refInstance, refLog, refDone>>

VARIABLES
  discInitial, \* the argument of useDisclosure: "omitted", "true" or "false"
  discState,   \* the state the latest render read from useState
  discQueue,   \* the setState updates queued since that render, oldest first
  discBatch,   \* how many queued updates the latest render processed
  discHistory  \* every open / close / toggle call so far, in order

discVars == <<discInitial, discState, discQueue, discBatch, discHistory>>

utilVars == <<memoVars, cbVars, refVars, discVars>>

vars == <<evVars, envVars, pureVars, mediaVars, utilVars>>

notEvents == <<envVars, pureVars, mediaVars, utilVars>>
notPure == <<evVars, mediaVars, utilVars>>
notMedia == <<evVars, pureVars, utilVars>>
coreVars == <<evVars, envVars, pureVars, mediaVars>>
notMemo == <<coreVars, cbVars, refVars, discVars>>
notCallback == <<coreVars, memoVars, refVars, discVars>>
notRefs == <<coreVars, memoVars, cbVars, discVars>>
notDisclosure == <<coreVars, memoVars, cbVars, refVars>>

(***************************************************************************)
(* use-media-query: safeMatch, matching, isEqual                           *)
(***************************************************************************)
\* typeof window === "undefined"
isServer(e) == ~e.window

\* a call either returns a value or throws
Returned(v) == [threw |-> FALSE, value |-> v]
Threw(v) == [threw |-> TRUE, value |-> v]

\* safeMatch: false without a window or without an own window.matchMedia;
\* otherwise window.matchMedia(query).matches, and false if that throws
safeMatchNoCatch(e, c) ==
  IF isServer(e) \/ ~e.matchMedia THEN Returned(FALSE)
  ELSE IF e.res[c] = "throws" THEN Threw(FALSE)
  ELSE Returned(e.res[c] = "match")
safeMatch(e, c) ==
  IF isServer(e) \/ ~e.matchMedia THEN Returned(FALSE)
  ELSE IF e.res[c] = "throws" THEN Returned(FALSE)
  ELSE Returned(e.res[c] = "match")

\* Object.keys(query).reduce(...): one safeMatch per key, stored under that
\* key of a fresh object, in key order; an exception of a safeMatch call would
\* leave the reduce
ReduceKeys(e, m) ==
  LET r == [k \in 1..Len(m) |-> safeMatch(e, m[k].val)]
      obj == ObjectResult([k \in 1..Len(m) |-> [name |-> m[k].name, val |-> r[k].value]])
  IN IF \E k \in 1..Len(m) : r[k].threw THEN Threw(obj) ELSE Returned(obj)

\* matching: an object is evaluated key by key, anything else as one condition
matchingFirstOnly(e, q) ==
  IF q.kind = "mapping"
  THEN ReduceKeys(e, [k \in 1..Len(q.m) |-> [name |-> q.m[k].name, val |-> q.m[1].val]])
  ELSE LET r == safeMatch(e, q.s)
       IN [threw |-> r.threw, value |-> BooleanResult(r.value)]
matching(e, q) ==
  IF q.kind = "null"
  THEN \* typeof null === "object": Object.keys(null) throws a TypeError
       Threw(BooleanResult(FALSE))
  ELSE IF q.kind = "mapping"
  THEN ReduceKeys(e, q.m)
  ELSE IF q.kind = "string"
  THEN LET r == safeMatch(e, q.s)
       IN [threw |-> r.threw, value |-> BooleanResult(r.value)]
  ELSE \* a number or undefined reaches safeMatch: its string form is not a
       \* media query, so matchMedia(...).matches is false, as are the
       \* outcomes without window or matchMedia and the caught exception
       Returned(BooleanResult(FALSE))

\* a[key] for an object result: undefined when the object has no such key
HasKey(m, name) == \E k \in 1..Len(m) : m[k].name = name
ValueAt(m, name) == (CHOOSE k \in 1..Len(m) : m[k].name = name)
StrictEqualAt(a, b, name) ==
  IF HasKey(a, name) /\ HasKey(b, name)
  THEN a[ValueAt(a, name)].val = b[ValueAt(b, name)].val
  ELSE ~HasKey(a, name) /\ ~HasKey(b, name)

\* isEqual: two objects are compared by key count, then key by key over the
\* keys of a; anything else with ===
isEqualCountOnly(a, b) ==
  IF a.kind = "object" /\ b.kind = "object"
  THEN Len(a.m) = Len(b.m)
  ELSE a = b
isEqual(a, b) ==
  IF a.kind = "object" /\ b.kind = "object"
  THEN IF Len(a.m) # Len(b.m) THEN FALSE
       ELSE IF Len(a.m) = 0 THEN TRUE
       ELSE \A k \in 1..Len(a.m) : StrictEqualAt(a.m, b.m, a.m[k].name)
  ELSE a = b

(***************************************************************************)
(* States of the parts a specification does not exercise                   *)
(***************************************************************************)
ServerEnv == [window |-> FALSE, matchMedia |-> FALSE, res |-> [c \in Conds |-> "nomatch"]]

EnvIdle == env = ServerEnv /\ query = StringQuery(1)
PureIdle ==
  /\ result = Returned(BooleanResult(FALSE)) /\ evaluated = FALSE
  /\ cmpA = BooleanResult(FALSE) /\ cmpB = BooleanResult(FALSE)
  /\ cmpOut = FALSE /\ compared = FALSE
MediaIdle ==
  /\ mounted = FALSE /\ isMatch = BooleanResult(FALSE) /\ rendered = BooleanResult(FALSE)
  /\ pending = 0
  /\ effectDue = FALSE /\ listeners = <<>> /\ hasCleanup = FALSE
  /\ resubscribed = FALSE
EventsIdle ==
  /\ callbacks = <<>> /\ phase = <<>> /\ queue = <<>> /\ ev = <<>> /\ calls = <<>>
  /\ active = <<>> /\ ret = <<>> /\ failure = <<>> /\ unhandled = <<>>
  /\ preventedAt = <<>> /\ steps = <<>> /\ micro = <<>> /\ timers = <<>>
MemoIdle ==
  /\ hook = "none" /\ hookArgs = <<>> /\ allocated = 0 /\ memo = <<>>
  /\ renders = 0 /\ returned = 0 /\ prevReturned = 0 /\ sameArgs = FALSE
CallbackIdle ==
  /\ cbList = <<>> /\ cbArgs = 0 /\ cbLog = <<>> /\ cbPending = {}
  /\ cbRejected = {} /\ cbDone = "idle"
RefsIdle ==
  /\ refList = <<>> /\ refCurrent = <<>> /\ refInstance = "null"
  /\ refLog = <<>> /\ refDone = "idle"
DisclosureIdle ==
  /\ discInitial = "omitted" /\ discState = FALSE /\ discQueue = <<>>
  /\ discBatch = 0 /\ discHistory = <<>>
CoreIdle == EnvIdle /\ PureIdle /\ MediaIdle /\ EventsIdle
UtilIdle == MemoIdle /\ CallbackIdle /\ RefsIdle /\ DisclosureIdle

(***************************************************************************)
(* The condition evaluator and the equality check, applied once            *)
(***************************************************************************)
EvaluateInit ==
  /\ env \in Envs /\ query \in Queries
  /\ PureIdle /\ MediaIdle /\ EventsIdle /\ UtilIdle

\* matching(query) in the environment env
Evaluate ==
  /\ ~evaluated
  /\ result' = matching(env, query)
  /\ evaluated' = TRUE
  /\ UNCHANGED <<cmpA, cmpB, cmpOut, compared, envVars, notPure>>

SpecEvaluate == EvaluateInit /\ [][Evaluate]_vars

EqualsInit ==
  /\ cmpA \in Results /\ cmpB \in Results
  /\ cmpOut = FALSE /\ compared = FALSE
  /\ result = Returned(BooleanResult(FALSE)) /\ evaluated = FALSE
  /\ EnvIdle /\ MediaIdle /\ EventsIdle /\ UtilIdle

\* isEqual(a, b)
Compare ==
  /\ ~compared
  /\ cmpOut' = isEqual(cmpA, cmpB)
  /\ compared' = TRUE
  /\ UNCHANGED <<cmpA, cmpB, result, evaluated, envVars, notPure>>

SpecEquals == EqualsInit /\ [][Compare]_vars

(***************************************************************************)
(* The condition evaluator and the equality check: properties              *)
(***************************************************************************)
\* the value the claim prescribes for one condition string
Prescribed(e, c, v) ==
  IF ~e.window \/ ~e.matchMedia \/ e.res[c] = "throws"
  THEN v = FALSE
  ELSE v = (e.res[c] = "match")

\* C7: evaluating a condition yields false when there is no window, no
\* matchMedia or the query call throws, and the environment's match result
\* otherwise; no exception leaves the evaluator, for a single condition and
\* for every entry of a named mapping.
C7_QueryFailuresDegradeToFalse ==
  evaluated =>
    /\ ~result.threw
    /\ query.kind = "string" =>
         /\ result.value.kind = "boolean"
         /\ Prescribed(env, query.s, result.value.b)
    /\ query.kind = "mapping" =>
         /\ result.value.kind = "object"
         /\ Len(result.value.m) = Len(query.m)
         /\ \A k \in 1..Len(query.m) :
              Prescribed(env, query.m[k].val, result.value.m[k].val)

\* a single condition whose query call throws was evaluated to false
C7_Witness ==
  /\ evaluated
  /\ query.kind = "string"
  /\ env.window /\ env.matchMedia /\ env.res[query.s] = "throws"
  /\ result = Returned(BooleanResult(FALSE))

\* C8: the result of evaluating a named mapping has exactly the names of the
\* mapping, and its value at each name is what evaluating that name's
\* condition alone yields.
C8_MappingEvaluatedNameByName ==
  (evaluated /\ query.kind = "mapping") =>
    LET r == result.value.m
    IN /\ Len(r) = Len(query.m)
       /\ {r[k].name : k \in 1..Len(r)} = {query.m[k].name : k \in 1..Len(query.m)}
       /\ \A k \in 1..Len(query.m) :
            /\ HasKey(r, query.m[k].name)
            /\ r[ValueAt(r, query.m[k].name)].val
                 = matching(env, StringQuery(query.m[k].val)).value.b

\* a mapping of two names: the query of the first throws, the second matches
C8_Witness ==
  /\ evaluated
  /\ query = MappingQuery(<<[name |-> 1, val |-> 1], [name |-> 2, val |-> 2]>>)
  /\ env.window /\ env.matchMedia
  /\ env.res[1] = "throws" /\ env.res[2] = "match"
  /\ result.value = ObjectResult(<<[name |-> 1, val |-> FALSE], [name |-> 2, val |-> TRUE]>>)

\* the (name, boolean) pairs of an object result
Pairs(r) == {<<r.m[k].name, r.m[k].val>> : k \in 1..Len(r.m)}

\* C9: on two results of the same shape isEqual is true exactly when the two
\* booleans are identical, or the two mappings have the same names with the
\* same boolean at every name (whatever the order of the names).
C9_IsEqualIsStructural ==
  (compared /\ cmpA.kind = cmpB.kind) =>
    IF cmpA.kind = "boolean"
    THEN cmpOut = (cmpA.b = cmpB.b)
    ELSE cmpOut = (Pairs(cmpA) = Pairs(cmpB))

\* {a: true, b: false} and {b: false, a: true} were found equal
C9_Witness ==
  /\ compared
  /\ cmpA = ObjectResult(<<[name |-> 1, val |-> TRUE], [name |-> 2, val |-> FALSE]>>)
  /\ cmpB = ObjectResult(<<[name |-> 2, val |-> FALSE], [name |-> 1, val |-> TRUE]>>)
  /\ cmpOut = TRUE

(***************************************************************************)
(* combineEvents: helpers                                                  *)
(***************************************************************************)
RECURSIVE UniqueFrom(_, _)
UniqueFrom(s, seen) ==
  IF s = <<>> THEN <<>>
  ELSE IF Head(s) \in seen THEN UniqueFrom(Tail(s), seen)
  ELSE <<Head(s)>> \o UniqueFrom(Tail(s), seen \cup {Head(s)})

\* new Set(callbacks): one member per distinct value, in insertion order
UniqueCallbacksKeepAll(cbs) == cbs
UniqueCallbacks(cbs) == UniqueFrom(cbs, {})

\* hasOwnProperty.call(event, "defaultPrevented") && event.defaultPrevented
DefaultPreventedNever(e) == FALSE
DefaultPreventedAnyCall(e) ==
  (e.own /\ e.dp) \/ \E j \in DOMAIN ev : ev[j].own /\ ev[j].dp
DefaultPrevented(e) == e.own /\ e.dp

\* hasOwnProperty.call(undefined, ...) throws a TypeError
CheckThrows(e) == e.kind = "undefined"

\* event.defaultPrevented = true, done by a handler on the object it received
Prevent(e) == [kind |-> "object", own |-> TRUE, dp |-> TRUE]

Terminal == {"completed", "cancelled", "failed", "typeerror"}
Phases == {"idle", "awaiting", "micro", "timer"} \cup Terminal

\* the promise built around callback(...args): a plain return value fulfils it
\* at once (its then-callback becomes a microtask), a throw rejects it, a
\* pending promise keeps it pending until that promise settles
AfterCallNoWait(outcome) ==
  CASE outcome = "value" -> "micro"
    [] outcome = "throw" -> "failed"
    [] outcome = "promise" -> "micro"
AfterCallFailOpen(outcome) ==
  CASE outcome = "value" -> "micro"
    [] outcome = "throw" -> "micro"
    [] outcome = "promise" -> "awaiting"
AfterCall(outcome) ==
  CASE outcome = "value" -> "micro"
    [] outcome = "throw" -> "failed"
    [] outcome = "promise" -> "awaiting"

\* .then(() => setTimeout(execute, 0)) has no rejection handler: only a
\* fulfilled promise schedules the next execute()
AfterSettle(outcome) ==
  CASE outcome = "resolve" -> "micro"
    [] outcome = "reject" -> "failed"

\* what combinedCallback hands back: the function body has no return statement
ReturnValue == "undefined"

(***************************************************************************)
(* combineEvents: the chain                                                *)
(***************************************************************************)
EventsInitFor(invocations, n) ==
  /\ callbacks \in AllLists(n)
  /\ phase = [i \in invocations |-> "idle"]
  /\ queue = [i \in invocations |-> <<>>]
  /\ ev = [i \in invocations |-> NoEvent]
  /\ calls = [i \in invocations |-> <<>>]
  /\ active = [i \in invocations |-> {}]
  /\ ret = [i \in invocations |-> "none"]
  /\ failure = [i \in invocations |-> 0]
  /\ unhandled = [i \in invocations |-> 0]
  /\ preventedAt = [i \in invocations |-> 0]
  /\ steps = [i \in invocations |-> <<>>]
  /\ micro = <<>>
  /\ timers = <<>>

\* the handler invoked last in invocation i
LastCalled(i) == calls[i][Len(calls[i])].h

\* function execute(), run for invocation i with uniqueCallbacks = q and
\* args[0] = e, from a task of kind src; tq is the timer queue it appends to
Execute(i, q, e, tq, src) ==
  IF q = <<>>
  THEN /\ phase' = [phase EXCEPT ![i] = "completed"]
       /\ queue' = [queue EXCEPT ![i] = q]
       /\ ev' = [ev EXCEPT ![i] = e]
       /\ timers' = tq
       /\ UNCHANGED <<calls, active, failure, unhandled, preventedAt, steps, micro>>
  ELSE LET callback == Head(q)
       IN /\ queue' = [queue EXCEPT ![i] = Tail(q)]
          /\ steps' = [steps EXCEPT ![i] = Append(@, <<callback, src>>)]
          /\ IF ~Truthy(callback)
             THEN /\ phase' = [phase EXCEPT ![i] = "timer"]
                  /\ timers' = Append(tq, i)
                  /\ ev' = [ev EXCEPT ![i] = e]
                  /\ UNCHANGED <<calls, active, failure, unhandled, preventedAt, micro>>
             ELSE IF CheckThrows(e)
             THEN /\ phase' = [phase EXCEPT ![i] = "typeerror"]
                  /\ timers' = tq
                  /\ ev' = [ev EXCEPT ![i] = e]
                  /\ UNCHANGED <<calls, active, failure, unhandled, preventedAt, micro>>
             ELSE IF DefaultPrevented(e)
             THEN /\ phase' = [phase EXCEPT ![i] = "cancelled"]
                  /\ timers' = tq
                  /\ ev' = [ev EXCEPT ![i] = e]
                  /\ UNCHANGED <<calls, active, failure, unhandled, preventedAt, micro>>
             ELSE \E outcome \in SyncOutcomes, prevents \in BOOLEAN :
                  /\ calls' = [calls EXCEPT ![i] = Append(@, [h |-> callback, out |-> outcome])]
                  /\ preventedAt' = [preventedAt EXCEPT ![i] =
                                       IF prevents /\ @ = 0 THEN Len(calls'[i]) ELSE @]
                  /\ ev' = [ev EXCEPT ![i] = IF prevents THEN Prevent(e) ELSE e]
                  /\ phase' = [phase EXCEPT ![i] = AfterCall(outcome)]
                  /\ active' = [active EXCEPT ![i] =
                                  IF outcome = "promise" THEN @ \cup {callback} ELSE @]
                  /\ failure' = [failure EXCEPT ![i] =
                                   IF outcome = "throw" THEN callback ELSE @]
                  /\ unhandled' = [unhandled EXCEPT ![i] =
                                     IF outcome = "throw" THEN callback ELSE @]
                  /\ micro' = IF AfterCall(outcome) = "micro"
                              THEN Append(micro, i) ELSE micro
                  /\ timers' = tq

\* combinedCallback(...args): a fresh Set per call, then execute() in the
\* caller's stack; a TypeError of that first execute() reaches the caller
InvokeSharedSet(i) ==
  /\ phase[i] = "idle"
  /\ \A j \in DOMAIN phase : j < i => phase[j] # "idle"
  /\ \E e \in EventArgs :
       /\ Execute(i, IF i = 1 THEN UniqueCallbacks(callbacks) ELSE queue[1], e,
                  timers, "call")
       /\ ret' = [ret EXCEPT ![i] =
                    IF phase'[i] = "typeerror" THEN "throw" ELSE ReturnValue]
  /\ UNCHANGED <<callbacks, notEvents>>
InvokeDeferred(i) ==
  /\ phase[i] = "idle"
  /\ \A j \in DOMAIN phase : j < i => phase[j] # "idle"
  /\ \E e \in EventArgs : ev' = [ev EXCEPT ![i] = e]
  /\ queue' = [queue EXCEPT ![i] = UniqueCallbacks(callbacks)]
  /\ phase' = [phase EXCEPT ![i] = "timer"]
  /\ timers' = Append(timers, i)
  /\ ret' = [ret EXCEPT ![i] = ReturnValue]
  /\ UNCHANGED <<callbacks, calls, active, failure, unhandled, preventedAt, steps,
                 micro, notEvents>>
Invoke(i) ==
  /\ phase[i] = "idle"
  /\ \A j \in DOMAIN phase : j < i => phase[j] # "idle"
  /\ \E e \in EventArgs :
       /\ Execute(i, UniqueCallbacks(callbacks), e, timers, "call")
       /\ ret' = [ret EXCEPT ![i] =
                    IF phase'[i] = "typeerror" THEN "throw" ELSE ReturnValue]
  /\ UNCHANGED <<callbacks, notEvents>>

\* the promise a handler returned settles, in some later task
Settle(i) ==
  /\ phase[i] = "awaiting"
  /\ micro = <<>>
  /\ \E outcome \in SettleOutcomes, prevents \in BOOLEAN :
       /\ ev' = [ev EXCEPT ![i] = IF prevents THEN Prevent(@) ELSE @]
       /\ phase' = [phase EXCEPT ![i] = AfterSettle(outcome)]
       /\ active' = [active EXCEPT ![i] = {}]
       /\ preventedAt' = [preventedAt EXCEPT ![i] =
                            IF prevents /\ @ = 0 THEN Len(calls[i]) ELSE @]
       /\ failure' = [failure EXCEPT ![i] =
                        IF outcome = "reject" THEN LastCalled(i) ELSE @]
       /\ unhandled' = [unhandled EXCEPT ![i] =
                          IF outcome = "reject" THEN LastCalled(i) ELSE @]
       /\ micro' = IF AfterSettle(outcome) = "micro" THEN Append(micro, i) ELSE micro
  /\ UNCHANGED <<callbacks, queue, calls, ret, steps, timers, notEvents>>

\* the then-callback: setTimeout(execute, 0)
RunMicrotaskDirect ==
  /\ micro # <<>>
  /\ LET i == Head(micro)
     IN Execute(i, queue[i], ev[i], timers, "microtask")
  /\ UNCHANGED <<callbacks, ret, notEvents>>
RunMicrotask ==
  /\ micro # <<>>
  /\ LET i == Head(micro)
     IN /\ phase' = [phase EXCEPT ![i] = "timer"]
        /\ timers' = Append(timers, i)
  /\ micro' = Tail(micro)
  /\ UNCHANGED <<callbacks, queue, ev, calls, active, ret, failure, unhandled,
                 preventedAt, steps, notEvents>>

\* a zero-delay timer fires: execute() in a task of its own
RunTimer ==
  /\ timers # <<>>
  /\ micro = <<>>
  /\ LET i == Head(timers)
     IN Execute(i, queue[i], ev[i], Tail(timers), "timer")
  /\ UNCHANGED <<callbacks, ret, notEvents>>

EventsNext ==
  \/ \E i \in DOMAIN phase : Invoke(i)
  \/ \E i \in DOMAIN phase : Settle(i)
  \/ RunMicrotask
  \/ RunTimer

EventsInit == EventsInitFor(OneCall, MaxLen) /\ EnvIdle /\ PureIdle /\ MediaIdle /\ UtilIdle
ConcurrentInit == EventsInitFor(TwoCalls, MaxArgs) /\ EnvIdle /\ PureIdle /\ MediaIdle /\ UtilIdle

\* one call of a combined handler
SpecEvents == EventsInit /\ [][EventsNext]_vars
\* two calls of the same combined handler, interleaved on one event loop
SpecConcurrent == ConcurrentInit /\ [][EventsNext]_vars
\* one call, on an event loop that eventually runs every queued microtask and
\* every zero-delay timer, and where every pending promise eventually settles
SpecEventsFair ==
  /\ EventsInit /\ [][EventsNext]_vars
  /\ WF_vars(RunMicrotask) /\ WF_vars(RunTimer)
  /\ WF_vars(\E i \in OneCall : Settle(i))


(***************************************************************************)
(* combineEvents: properties                                               *)
(***************************************************************************)
\* the handlers invocation i has invoked, in order
Called(i) == [k \in 1..Len(calls[i]) |-> calls[i][k].h]

\* the handler references of an argument list, and where each first occurs
HandlersOf(cbs) == {cbs[k] : k \in 1..Len(cbs)} \cap Handlers
FirstIndex(cbs, h) ==
  CHOOSE k \in 1..Len(cbs) : cbs[k] = h /\ \A j \in 1..(k - 1) : cbs[j] # h

InQueue(q, i) == \E k \in 1..Len(q) : q[k] = i

\* C1: in one invocation every handler reference is invoked at most once, the
\* handlers are invoked in the order of their first occurrence in the argument
\* list without skipping one, and an invocation that runs to completion has
\* invoked every handler reference of the list.
C1_OncePerReferenceInFirstOccurrenceOrder ==
  \A i \in DOMAIN phase :
    LET c == Called(i)
    IN /\ \A a, b \in 1..Len(c) : a < b => c[a] # c[b]
       /\ \A a \in 1..Len(c) : c[a] \in HandlersOf(callbacks)
       /\ \A a, b \in 1..Len(c) :
            a < b => FirstIndex(callbacks, c[a]) < FirstIndex(callbacks, c[b])
       /\ \A a \in 1..Len(c) : \A h \in HandlersOf(callbacks) :
            FirstIndex(callbacks, h) < FirstIndex(callbacks, c[a])
              => \E b \in 1..a : c[b] = h
       /\ phase[i] = "completed"
            => {c[a] : a \in 1..Len(c)} = HandlersOf(callbacks)

\* combine(h1, h1, h2) has run to completion: h1 once, then h2 once
C1_Witness ==
  /\ callbacks = <<1, 1, 2>>
  /\ phase[1] = "completed"
  /\ Called(1) = <<1, 2>>

\* C2: a handler is started only when no handler of the same invocation has
\* a result that is still pending.
C2_NoOverlap ==
  [][\A i \in DOMAIN phase :
       Len(calls'[i]) > Len(calls[i])
         => active[i] = {} /\ phase[i] \in {"idle", "timer"}]_vars

\* the first handler returned a pending promise, it resolved, and the second
\* handler has been started
C2_Witness ==
  /\ Len(calls[1]) = 2
  /\ calls[1][1].out = "promise"
  /\ calls[1][1].h # calls[1][2].h

C4_FailFast ==
  \A i \in DOMAIN phase :
    failure[i] # 0
      => /\ LastCalled(i) = failure[i]
         /\ phase[i] = "failed"
         /\ ~InQueue(micro, i)
         /\ ~InQueue(timers, i)

\* combine(h1, h2): the promise h1 returned rejected, h2 was left in the queue
C4_Witness ==
  /\ callbacks = <<1, 2>>
  /\ failure[1] = 1
  /\ calls[1][1].out = "promise"
  /\ queue[1] = <<2>>
  /\ micro = <<>> /\ timers = <<>>

\* C5: when a handler fails, what the combined handler returned to its caller
\* is a promise that rejects with the handler's error (so the error is not
\* left in a promise nobody observes).
C5_FailureRejectsCallersCompletion ==
  \A i \in DOMAIN phase :
    failure[i] # 0 => ret[i] = "promise" /\ unhandled[i] = 0

(***************************************************************************)
(* useMediaQuery: one subscriber                                           *)
(***************************************************************************)
\* the queries a component passes to the hook: a condition string, or an
\* object literal of up to MaxKeys keys (its k keys are the first k names)
HookQueries ==
  {StringQuery(c) : c \in Conds} \cup
  UNION {{MappingQuery([j \in 1..k |-> [name |-> j, val |-> f[j]]]) :
            f \in [1..k -> Conds]} : k \in 0..MaxKeys}

\* the environments the hook runs in; a resize changes which conditions match
HookEnvs ==
  {[window |-> w, matchMedia |-> w /\ mm, res |-> r] :
     w \in BOOLEAN, mm \in BOOLEAN, r \in [Conds -> {"match", "nomatch"}]}

\* window.removeEventListener("resize", handleResize): handleResize is the
\* closure the same effect added, the one this subscriber added last
RemoveListenerNoop(ls) == ls
RemoveListener(ls) == SubSeq(ls, 1, Len(ls) - 1)

\* window.addEventListener("resize", handleResize): a new closure over the
\* query and the isMatch of the render the effect belongs to
AddListener(ls, q, m) == Append(ls, [query |-> q, isMatch |-> m])

\* Object.is(a, b) for a hook state and the state of the last render:
\* booleans by value; an object state is the same object only while no
\* update is queued
SameState(a, b, queued) ==
  IF a.kind = "boolean" /\ b.kind = "boolean" THEN a = b ELSE queued = 0

\* setIsMatch(v) on the hook state st = [isMatch, pending]: with nothing
\* queued React drops an update to the value it already holds (possible for
\* a boolean only, a new object is never the one held); otherwise the update
\* is queued and v is the state of the next render
SetIsMatch(st, v) ==
  IF st.pending = 0 /\ st.isMatch.kind = "boolean" /\ st.isMatch = v
  THEN st
  ELSE [isMatch |-> v, pending |-> st.pending + 1]

\* handleResize of one closure: recompute for the query the closure captured,
\* compare with the isMatch the closure captured, store the new result unless
\* they are equal
HandleResize(e, closure, st) ==
  LET newMatch == matching(e, closure.query).value
  IN IF isEqual(closure.isMatch, newMatch) THEN st ELSE SetIsMatch(st, newMatch)

\* the resize event is dispatched to the registered listeners, oldest first
RECURSIVE Dispatch(_, _, _)
Dispatch(e, ls, st) ==
  IF ls = <<>> THEN st
  ELSE Dispatch(e, Tail(ls), HandleResize(e, Head(ls), st))

MediaInit ==
  /\ env \in HookEnvs /\ query = StringQuery(1)
  /\ MediaIdle /\ PureIdle /\ EventsIdle /\ UtilIdle

\* first render: useState(matching(query)), then the effect is due; if
\* matching throws the render throws and the component is not mounted
Mount(q) ==
  /\ ~mounted
  /\ mounted' = ~matching(env, q).threw
  /\ query' = q
  /\ isMatch' = matching(env, q).value
  /\ rendered' = IF matching(env, q).threw THEN RenderThrew ELSE matching(env, q).value
  /\ pending' = 0
  /\ effectDue' = ~matching(env, q).threw
  /\ resubscribed' = FALSE
  /\ UNCHANGED <<env, listeners, hasCleanup, notMedia>>

\* a later render with query q of the same shape; sameObject says whether q
\* is the very object of the previous render. The queued updates become the
\* state; the effect is due when a dependency of [query, isMatch] is no
\* longer the same value.
Render(q, sameObject) ==
  /\ mounted /\ ~effectDue
  /\ q.kind = query.kind
  /\ sameObject => q = query
  /\ query' = q
  /\ rendered' = isMatch
  /\ pending' = 0
  /\ effectDue' = \/ q # query
                  \/ (q.kind = "mapping" /\ ~sameObject)
                  \/ ~SameState(isMatch, rendered, pending)
  /\ UNCHANGED <<env, mounted, isMatch, listeners, hasCleanup, resubscribed, notMedia>>

\* the effect of the last render: the cleanup of the previous effect, then
\* nothing without a window, a new listener otherwise
RunEffect ==
  /\ mounted /\ effectDue
  /\ effectDue' = FALSE
  /\ LET cleaned == IF hasCleanup THEN RemoveListener(listeners) ELSE listeners
     IN IF isServer(env)
        THEN listeners' = cleaned /\ hasCleanup' = FALSE /\ UNCHANGED resubscribed
        ELSE /\ listeners' = AddListener(cleaned, query, rendered)
             /\ hasCleanup' = TRUE
             /\ resubscribed' = (resubscribed \/ hasCleanup)
  /\ UNCHANGED <<envVars, mounted, isMatch, rendered, pending, notMedia>>

\* the window is resized: the conditions that match become res, and the
\* resize event reaches the listeners registered at that moment
Resize(res) ==
  /\ env.window
  /\ env' = [env EXCEPT !.res = res]
  /\ LET st == Dispatch(env', listeners, [isMatch |-> isMatch, pending |-> pending])
     IN /\ st.pending <= MaxPending
        /\ isMatch' = st.isMatch
        /\ pending' = st.pending
  /\ UNCHANGED <<query, mounted, rendered, effectDue, listeners, hasCleanup,
                 resubscribed, notMedia>>

\* the component unmounts: React runs the cleanup of the effect that ran last
Unmount ==
  /\ mounted
  /\ mounted' = FALSE
  /\ effectDue' = FALSE
  /\ listeners' = IF hasCleanup THEN RemoveListener(listeners) ELSE listeners
  /\ hasCleanup' = FALSE
  /\ UNCHANGED <<envVars, isMatch, rendered, pending, resubscribed, notMedia>>

MediaNext ==
  \/ \E q \in HookQueries : Mount(q)
  \/ \E q \in HookQueries :
       \E sameObject \in (IF q = query THEN BOOLEAN ELSE {FALSE}) : Render(q, sameObject)
  \/ RunEffect
  \/ \E res \in [Conds -> {"match", "nomatch"}] : Resize(res)
  \/ Unmount

SpecMedia == MediaInit /\ [][MediaNext]_vars

(***************************************************************************)
(* useMediaQuery: properties                                               *)
(***************************************************************************)
\* C6: a notification queues a state update (the recomputed result becomes
\* the stored one) only if the recomputed result is not structurally equal to
\* the result stored when the notification arrives.
C6_UpdateOnlyWhenStoredResultDiffers ==
  [][pending' > pending => ~isEqual(isMatch, isMatch')]_vars

\* C10: at most one resize listener of the subscriber is registered at any
\* time, a registered listener belongs to a mounted subscriber whose effect
\* holds the cleanup that removes it, and none is registered without a window
\* or after the unmount.
C10_ListenerSymmetry ==
  /\ Len(listeners) <= 1
  /\ listeners # <<>> => (mounted /\ hasCleanup /\ ~isServer(env))
  /\ ~mounted => listeners = <<>>

\* the subscriber replaced its listener at least once and has unmounted
C10_Witness ==
  /\ ~mounted
  /\ resubscribed
  /\ listeners = <<>>

\* the handler references among the entries of a queue
QueueHandlers(q) == {q[k] : k \in 1..Len(q)} \cap Handlers

\* C26: with two calls of one combined handler in flight, each call invokes
\* the handler references in first-occurrence order without repeating one,
\* the handlers it has invoked and those left in its queue always make up the
\* whole list, a completed call has invoked them all, a step dequeues from
\* one call's queue only, and only its head, and the argument list is never
\* changed.
C26_EachCallOwnsItsQueue ==
  /\ [](\A i \in DOMAIN phase :
          LET c == Called(i)
          IN /\ \A a, b \in 1..Len(c) :
                  a < b => /\ c[a] # c[b]
                           /\ FirstIndex(callbacks, c[a]) < FirstIndex(callbacks, c[b])
             /\ phase[i] \notin {"idle", "cancelled", "typeerror"}
                  => /\ {c[a] : a \in 1..Len(c)} \cup QueueHandlers(queue[i])
                          = HandlersOf(callbacks)
                     /\ {c[a] : a \in 1..Len(c)} \cap QueueHandlers(queue[i]) = {}
             /\ phase[i] = "completed"
                  => {c[a] : a \in 1..Len(c)} = HandlersOf(callbacks))
  /\ [][/\ callbacks' = callbacks
        /\ \A i \in DOMAIN phase :
             (phase[i] # "idle" /\ queue'[i] # queue[i])
               => /\ queue'[i] = Tail(queue[i])
                  /\ Len(steps'[i]) = Len(steps[i]) + 1
                  /\ \A j \in DOMAIN phase \ {i} : queue'[j] = queue[j]]_vars

\* combine(h1, h2) called twice: the second call has run h1 and h2 to
\* completion while the first still waits for the promise of h1, with h2 in
\* its queue
C26_Witness ==
  /\ callbacks = <<1, 2>>
  /\ DOMAIN phase = TwoCalls
  /\ phase[1] = "awaiting" /\ Called(1) = <<1>> /\ queue[1] = <<2>>
  /\ phase[2] = "completed" /\ Called(2) = <<1, 2>>

C16_ChainReachesCompleted ==
  /\ \A i \in OneCall :
       (phase[i] # "idle")
         ~> \/ /\ phase[i] = "completed" /\ queue[i] = <<>>
               /\ {calls[i][k].h : k \in 1..Len(calls[i])} = HandlersOf(callbacks)
            \/ DefaultPrevented(ev[i])
            \/ failure[i] # 0
  /\ [][\A i \in DOMAIN phase :
          phase[i] \in {"completed", "cancelled", "failed"}
            => phase'[i] = phase[i] /\ calls'[i] = calls[i]]_vars

\* C15: a call whose first argument has no own cancellation property (an
\* object without it, or no first argument at all) raises no error and is not
\* cancelled.
C15_NoPropertyMeansNotCancelled ==
  \A i \in DOMAIN phase :
    (phase[i] # "idle" /\ ~ev[i].own)
      => /\ ret[i] # "throw"
         /\ phase[i] \notin {"typeerror", "cancelled"}

\* C14: a combined handler built from an empty list or from absent entries
\* only invokes no handler and raises no error, and every call of it reaches
\* the state where its queue is empty and nothing of it is scheduled.
C14_AllAbsentDoesNothing ==
  /\ [](HandlersOf(callbacks) = {}
          => \A i \in DOMAIN phase :
               /\ calls[i] = <<>>
               /\ ret[i] # "throw"
               /\ failure[i] = 0
               /\ phase[i] \in {"idle", "timer", "completed"})
  /\ \A i \in OneCall :
       (HandlersOf(callbacks) = {} /\ phase[i] # "idle")
         ~> (/\ phase[i] = "completed" /\ queue[i] = <<>>
             /\ ~InQueue(micro, i) /\ ~InQueue(timers, i))

\* combine(null, undefined) was called and is over without a handler call
C14_Witness ==
  /\ callbacks = <<NullEntry, UndefinedEntry>>
  /\ phase[1] = "completed"
  /\ Len(steps[1]) = 2
  /\ calls[1] = <<>>
  /\ ret[1] = ReturnValue

\* C13: every queue entry of an invocation after the first one, absent
\* entries included, is dequeued by an execute() that a zero-delay timer
\* started: at that moment the invocation's timer is at the head of the timer
\* queue and no microtask is left, and never by the call stack that finished
\* the entry before it.
C13_NextEntryFromDeferredTask ==
  /\ [](\A i \in DOMAIN phase : \A k \in 2..Len(steps[i]) : steps[i][k][2] = "timer")
  /\ [][\A i \in DOMAIN phase :
          (Len(steps'[i]) > Len(steps[i]) /\ Len(steps[i]) >= 1)
            => /\ phase[i] = "timer"
               /\ timers # <<>> /\ Head(timers) = i
               /\ micro = <<>>]_vars

\* combine(h1, null, h2) has run to completion: h1 in the caller's stack, the
\* absent entry and h2 each from a timer
C13_Witness ==
  /\ callbacks = <<1, NullEntry, 2>>
  /\ phase[1] = "completed"
  /\ steps[1] = <<(<<1, "call">>), (<<NullEntry, "timer">>), (<<2, "timer">>)>>

FixedQueryNext ==
  \/ \E q \in HookQueries : Mount(q)
  \/ \E sameObject \in BOOLEAN : Render(query, sameObject)
  \/ RunEffect
  \/ \E res \in [Conds -> {"match", "nomatch"}] : listeners # <<>> /\ Resize(res)
  \/ Unmount

SpecFixedQuery == MediaInit /\ [][FixedQueryNext]_vars

\* C23: when the subscriber is mounted with nothing left to do (no queued
\* update, no effect due), the stored result is structurally equal to the
\* evaluation of its query in the current environment.
C23_StoredResultCatchesUp ==
  (mounted /\ pending = 0 /\ ~effectDue)
    => isEqual(isMatch, matching(env, query).value)

\* a subscriber whose query may change from render to render, in an
\* environment that stays as it is (no resize)
QueryChangeNext ==
  \/ \E q \in HookQueries : Mount(q)
  \/ \E q \in HookQueries :
       \E sameObject \in (IF q = query THEN BOOLEAN ELSE {FALSE}) : Render(q, sameObject)
  \/ RunEffect
  \/ Unmount

SpecQueryChange == MediaInit /\ [][QueryChangeNext]_vars

\* C24: without a notification, what the latest render returned is the
\* evaluation of the query that render was given: the same boolean, or the
\* same names with the same booleans.
C24_ReturnsEvaluationOfCurrentQuery ==
  mounted
    => /\ rendered.kind = matching(env, query).value.kind
       /\ isEqual(rendered, matching(env, query).value)

(***************************************************************************)
(* useCombineEvents, useCombineCallback, useCombineRefs: useMemo           *)
(***************************************************************************)
MemoHooks == {"useCombineEvents", "useCombineCallback", "useCombineRefs"}

\* the argument lists: handler (or ref) references and the two absent values
ArgLists == UNION {[1..k -> Entries] : k \in 0..MaxArgs}

\* React compares the dependency lists of two renders with Object.is, pair by
\* pair; an object (here: an array) is identical only to itself
AreHookInputsEqual(nextDeps, prevDeps) ==
  /\ Len(nextDeps) = Len(prevDeps)
  /\ \A k \in 1..Len(nextDeps) : nextDeps[k] = prevDeps[k]

\* useMemo(create, deps): keeps the cell when the dependencies are the ones
\* stored in it, otherwise stores what create() makes
UseMemo(cell, deps, created) ==
  IF cell # <<>> /\ AreHookInputsEqual(deps, cell[1].deps)
  THEN cell
  ELSE <<[deps |-> deps, value |-> created]>>

MemoInit ==
  /\ hook \in MemoHooks
  /\ hookArgs = <<>> /\ allocated = 0 /\ memo = <<>>
  /\ renders = 0 /\ returned = 0 /\ prevReturned = 0 /\ sameArgs = FALSE
  /\ CoreIdle /\ CallbackIdle /\ RefsIdle /\ DisclosureIdle

\* one render of a component that calls hook(...list). The rest parameter
\* `...callbacks` (`...refs`) is a new array at every call, and that array is
\* the single dependency; combineX(...callbacks) returns a new function
RenderWrapper(list) ==
  /\ hook \in MemoHooks
  /\ renders < MaxRenders
  /\ LET restArray == allocated + 1
         created == allocated + 2
         cell == UseMemo(memo, <<restArray>>, created)
     IN /\ memo' = cell
        /\ returned' = cell[1].value
        /\ allocated' = IF cell[1].value = created THEN created ELSE restArray
  /\ prevReturned' = returned
  /\ sameArgs' = (renders > 0 /\ list = hookArgs)
  /\ hookArgs' = list
  /\ renders' = renders + 1
  /\ UNCHANGED <<hook, notMemo>>

MemoNext == \E list \in ArgLists : RenderWrapper(list)

\* a component rendering several times with one of the memoized wrappers
SpecMemo == MemoInit /\ [][MemoNext]_vars

\* C11: a render whose arguments are element-wise identical to those of the
\* render before it returns the combined handler that render returned.
C11_StableAcrossIdenticalRenders ==
  (renders >= 2 /\ sameArgs) => returned = prevReturned

(***************************************************************************)
(* combineCallback                                                         *)
(***************************************************************************)
\* two distinct argument tuples a caller may pass
ArgTuples == {1, 2}

\* `callback?.(...)`: the optional call does nothing for null and undefined
Nullish(entry) == entry \in {NullEntry, UndefinedEntry}

\* callbacks.forEach((callback) => callback?.(...args)), from position k on;
\* outs[k] is what the callback at position k does when called. An exception
\* of a callback leaves forEach and combinedCallback
RECURSIVE ForEachCallback(_, _, _, _, _)
ForEachCallback(cbs, args, outs, k, acc) ==
  IF k > Len(cbs) THEN [log |-> acc, threw |-> FALSE]
  ELSE IF Nullish(cbs[k]) THEN ForEachCallback(cbs, args, outs, k + 1, acc)
  ELSE LET entry == [h |-> cbs[k], args |-> args, out |-> outs[k]]
       IN IF outs[k] = "throw"
          THEN [log |-> Append(acc, entry), threw |-> TRUE]
          ELSE ForEachCallback(cbs, args, outs, k + 1, Append(acc, entry))

\* combinedCallback(...args)
CombinedCallbackSwallows(cbs, args, outs) ==
  [ForEachCallback(cbs, args, outs, 1, <<>>) EXCEPT !.threw = FALSE]
CombinedCallbackUnique(cbs, args, outs) ==
  ForEachCallback(UniqueCallbacks(cbs), args, outs, 1, <<>>)
CombinedCallback(cbs, args, outs) == ForEachCallback(cbs, args, outs, 1, <<>>)

\* the positions of a log whose call returned a pending promise
PromisesOf(log) == {k \in 1..Len(log) : log[k].out = "promise"}

CallbackInit ==
  /\ cbList \in ArgLists
  /\ cbArgs = 0 /\ cbLog = <<>> /\ cbPending = {} /\ cbRejected = {}
  /\ cbDone = "idle"
  /\ CoreIdle /\ MemoIdle /\ RefsIdle /\ DisclosureIdle

\* one call of the combined callback, run to its end
CallCombined(args, outs) ==
  /\ cbDone = "idle"
  /\ LET r == CombinedCallback(cbList, args, outs)
     IN /\ cbLog' = r.log
        /\ cbPending' = PromisesOf(r.log)
        /\ cbDone' = IF r.threw THEN "threw" ELSE "returned"
  /\ cbArgs' = args
  /\ UNCHANGED <<cbList, cbRejected, notCallback>>

\* a promise returned by one of the callbacks settles, in a later task
SettleCallback(k, outcome) ==
  /\ k \in cbPending
  /\ cbPending' = cbPending \ {k}
  /\ cbRejected' = IF outcome = "reject" THEN cbRejected \cup {k} ELSE cbRejected
  /\ UNCHANGED <<cbList, cbArgs, cbLog, cbDone, notCallback>>

CallbackNext ==
  \/ \E args \in ArgTuples, outs \in [1..Len(cbList) -> SyncOutcomes] :
       CallCombined(args, outs)
  \/ \E k \in 1..Len(cbLog), outcome \in SettleOutcomes : SettleCallback(k, outcome)

\* one call of a handler made by combineCallback
SpecCallback == CallbackInit /\ [][CallbackNext]_vars

\* the callbacks of a list that are not absent, one per occurrence, in order
Present(cbs) == SelectSeq(cbs, Truthy)

\* C17: a call of the combined callback invokes the non-absent callbacks of
\* the list with the call's arguments, in list order and once per occurrence;
\* when it returns it has invoked all of them, and every promise a callback
\* returned is still pending at that moment.
C17_AllCallbacksInListOrder ==
  /\ [](/\ Len(cbLog) <= Len(Present(cbList))
        /\ \A k \in 1..Len(cbLog) :
             cbLog[k].h = Present(cbList)[k] /\ cbLog[k].args = cbArgs
        /\ cbDone = "returned" => Len(cbLog) = Len(Present(cbList)))
  /\ [][(cbDone = "idle" /\ cbDone' = "returned")
          => cbPending' = PromisesOf(cbLog')]_vars

\* combineCallback(h1, h1) was called and has returned: h1 was invoked twice,
\* and the promise of its first call is still pending
C17_Witness ==
  /\ cbList = <<1, 1>>
  /\ cbDone = "returned"
  /\ Len(cbLog) = 2 /\ cbLog[1].h = 1 /\ cbLog[2].h = 1
  /\ 1 \in cbPending

\* C27: the invoked callbacks are a prefix of the non-absent callbacks of the
\* list; a callback that throws is the last one invoked and the call of the
\* combined callback ends with its exception, and the call ends with an
\* exception only in that way; a callback that returned a promise, rejected
\* later or not, is followed by the invocation of the next callback of the
\* list.
C27_ThrowStopsRejectionDoesNot ==
  /\ Len(cbLog) <= Len(Present(cbList))
  /\ \A k \in 1..Len(cbLog) :
       /\ cbLog[k].h = Present(cbList)[k]
       /\ cbLog[k].out = "throw" => (cbDone = "threw" /\ k = Len(cbLog))
       /\ (cbLog[k].out = "promise" /\ k < Len(Present(cbList)))
            => k < Len(cbLog)
  /\ cbRejected \subseteq PromisesOf(cbLog)
  /\ cbDone = "threw" => (cbLog # <<>> /\ cbLog[Len(cbLog)].out = "throw")

\* combineCallback(h1, h2) was called and h1 threw: the call ended with the
\* exception and h2 was not invoked
C27_Witness ==
  /\ cbList = <<1, 2>>
  /\ cbDone = "threw"
  /\ Len(cbLog) = 1 /\ cbLog[1].h = 1 /\ cbLog[1].out = "throw"

(***************************************************************************)
(* combineRefs                                                             *)
(***************************************************************************)
RefIds == 1..NumRefs

\* Ref<T>: a callback ref, a ref object (it has an own `current`), null or
\* undefined; "bare" is an object that has no own property `current`
NullRef == [kind |-> "null", id |-> 0]
UndefinedRef == [kind |-> "undefined", id |-> 0]
BareObject == [kind |-> "bare", id |-> 0]
FunctionRef(f) == [kind |-> "function", id |-> f]
ObjectRef(o) == [kind |-> "object", id |-> o]
RefEntries ==
  {FunctionRef(f) : f \in RefIds} \cup {ObjectRef(o) : o \in RefIds}
    \cup {NullRef, UndefinedRef, BareObject}
RefLists == UNION {[1..k -> RefEntries] : k \in 0..MaxArgs}

\* instance: T | null
Instances == {"null", "element"}
\* what a call of a callback ref does
RefOutcomes == {"value", "throw"}

\* ref != null && Object.prototype.hasOwnProperty.call(ref, "current")
HasCurrentUnguarded(ref) == ref.kind \in {"object", "null", "undefined"}
HasCurrent(ref) == ref.kind = "object"

\* refs.forEach((ref) => { ... }) from position k on, with cur the `current`
\* of the ref objects and log the callback refs called so far; an exception
\* of a callback ref leaves forEach (and so would a TypeError of the test of
\* `current`, were it applied to null or undefined)
RECURSIVE ForEachRef(_, _, _, _, _, _)
ForEachRef(refs, instance, outs, k, cur, log) ==
  IF k > Len(refs) THEN [current |-> cur, log |-> log, threw |-> FALSE]
  ELSE LET ref == refs[k]
       IN IF ref.kind = "function"
          THEN LET entry == [f |-> ref.id, instance |-> instance, out |-> outs[k]]
               IN IF outs[k] = "throw"
                  THEN [current |-> cur, log |-> Append(log, entry), threw |-> TRUE]
                  ELSE ForEachRef(refs, instance, outs, k + 1, cur, Append(log, entry))
          ELSE IF HasCurrent(ref)
          THEN IF ref.kind = "object"
               THEN ForEachRef(refs, instance, outs, k + 1,
                               [cur EXCEPT ![ref.id] = instance], log)
               ELSE [current |-> cur, log |-> log, threw |-> TRUE]
          ELSE ForEachRef(refs, instance, outs, k + 1, cur, log)

RefsInit ==
  /\ refList \in RefLists
  /\ refCurrent = [o \in RefIds |-> "null"]
  /\ refInstance = "null" /\ refLog = <<>> /\ refDone = "idle"
  /\ CoreIdle /\ MemoIdle /\ CallbackIdle /\ DisclosureIdle

\* one call of the combined callback ref (React calls it with the element
\* when it attaches the ref and with null when it detaches it)
CallCombinedRef(instance, outs) ==
  /\ LET r == ForEachRef(refList, instance, outs, 1, refCurrent, <<>>)
     IN /\ refCurrent' = r.current
        /\ refLog' = r.log
        /\ refDone' = IF r.threw THEN "threw" ELSE "returned"
  /\ refInstance' = instance
  /\ UNCHANGED <<refList, notRefs>>

RefsNext ==
  \E instance \in Instances, outs \in [1..Len(refList) -> RefOutcomes] :
    CallCombinedRef(instance, outs)

\* calls of a callback ref made by combineRefs
SpecRefs == RefsInit /\ [][RefsNext]_vars

\* the callback refs of a list, one per occurrence, in order
IsFunctionRef(ref) == ref.kind = "function"
FunctionRefs(refs) == SelectSeq(refs, IsFunctionRef)
\* the ref objects of a list
ObjectRefsOf(refs) == {refs[k].id : k \in {j \in 1..Len(refs) : refs[j].kind = "object"}}

\* C18: a call of the combined ref with an instance calls the callback refs
\* of the list with that instance, in list order and once per occurrence; it
\* raises an error only if a callback ref did; when it returns, every callback
\* ref has been called and every ref object of the list has the instance as
\* its current; and no call changes a ref object that is not in the list.
C18_EveryRefReceivesInstance ==
  /\ [](/\ Len(refLog) <= Len(FunctionRefs(refList))
        /\ \A k \in 1..Len(refLog) :
             /\ refLog[k].f = FunctionRefs(refList)[k].id
             /\ refLog[k].instance = refInstance
        /\ refDone = "threw"
             => (refLog # <<>> /\ refLog[Len(refLog)].out = "throw")
        /\ refDone = "returned"
             => /\ Len(refLog) = Len(FunctionRefs(refList))
                /\ \A o \in ObjectRefsOf(refList) : refCurrent[o] = refInstance)
  /\ [][\A o \in RefIds \ ObjectRefsOf(refList) : refCurrent'[o] = refCurrent[o]]_vars

\* combineRefs(f1, o1) was called with the element: f1 received it,
\* o1.current is the element, the ref object o2 outside the list is untouched
C18_Witness ==
  /\ refList = <<FunctionRef(1), ObjectRef(1)>>
  /\ refDone = "returned"
  /\ refInstance = "element"
  /\ Len(refLog) = 1 /\ refLog[1].f = 1
  /\ refCurrent[1] = "element" /\ refCurrent[2] = "null"

(***************************************************************************)
(* useDisclosure                                                           *)
(***************************************************************************)
\* initialState: boolean = false
InitialStates == {"omitted", "true", "false"}
InitialState(arg) == arg = "true"

\* what open, close and toggle hand to setState: a value, or the updater
\* function (s) => !s; shown is the state of the render that made them
ValueUpdate(b) == [kind |-> "value", value |-> b]
NegateUpdate == [kind |-> "updater", value |-> FALSE]
OpenUpdate(shown) == ValueUpdate(TRUE)
CloseUpdate(shown) == ValueUpdate(FALSE)
ToggleUpdateFromRendered(shown) == ValueUpdate(~shown)
ToggleUpdate(shown) == NegateUpdate

\* React applies the queued updates in order at the next render: a value
\* replaces the state, an updater function receives the state so far
RECURSIVE ProcessQueue(_, _)
ProcessQueue(state, updates) ==
  IF updates = <<>> THEN state
  ELSE LET u == Head(updates)
       IN ProcessQueue(IF u.kind = "value" THEN u.value ELSE ~state, Tail(updates))

DisclosureInit ==
  /\ discInitial \in InitialStates
  /\ discState = InitialState(discInitial)
  /\ discQueue = <<>> /\ discBatch = 0 /\ discHistory = <<>>
  /\ CoreIdle /\ MemoIdle /\ CallbackIdle /\ RefsIdle

\* a call of one of the three functions the latest render returned
Enqueue(op, update) ==
  /\ Len(discHistory) < MaxOps
  /\ discQueue' = Append(discQueue, update)
  /\ discHistory' = Append(discHistory, op)
  /\ UNCHANGED <<discInitial, discState, discBatch, notDisclosure>>

open == Enqueue("open", OpenUpdate(discState))
close == Enqueue("close", CloseUpdate(discState))
toggle == Enqueue("toggle", ToggleUpdate(discState))

\* the component renders again: useState returns the state after the queue
RenderDisclosure ==
  /\ discQueue # <<>>
  /\ discState' = ProcessQueue(discState, discQueue)
  /\ discBatch' = Len(discQueue)
  /\ discQueue' = <<>>
  /\ UNCHANGED <<discInitial, discHistory, notDisclosure>>

DisclosureNext == open \/ close \/ toggle \/ RenderDisclosure

\* a component using useDisclosure
SpecDisclosure == DisclosureInit /\ [][DisclosureNext]_vars

\* the state a sequence of calls leads to from state b: open gives true,
\* close gives false, toggle negates the state reached before it
RECURSIVE AppliedInOrder(_, _)
AppliedInOrder(b, ops) ==
  IF ops = <<>> THEN b
  ELSE LET before == AppliedInOrder(b, SubSeq(ops, 1, Len(ops) - 1))
           op == ops[Len(ops)]
       IN CASE op = "open" -> TRUE
            [] op = "close" -> FALSE
            [] op = "toggle" -> ~before

\* C19: the state starts at initialState (false when omitted), and whenever
\* every call made so far has been rendered, however the calls were spread
\* over the renders, it is the result of applying the calls in order.
C19_StateFollowsCallsInOrder ==
  /\ discHistory = <<>> => discState = (discInitial = "true")
  /\ discQueue = <<>>
       => discState = AppliedInOrder(discInitial = "true", discHistory)

\* two toggle calls between two renders: one render processed both and the
\* state is the initial one again
C19_Witness ==
  /\ discHistory = <<"toggle", "toggle">>
  /\ discQueue = <<>>
  /\ discBatch = 2
  /\ discState = (discInitial = "true")

(***************************************************************************)
(* useBreakpointValue                                                      *)
(***************************************************************************)
\* BreakpointValue: a static value (a string or a number; undefined and null
\* are accepted too), or a mapping from values to conditions (the keys in the
\* order the object enumerates them)
BreakpointSizes ==
  {StringQuery(c) : c \in Conds} \cup {MappingQuery(m) : m \in KeyedSeqs(Conds)}
    \cup {NumberQuery(n) : n \in Conds} \cup {UndefinedQuery, NullQuery}

\* ["string", "number", "undefined"].includes(typeof size) || size === null
StaticKinds == {"string", "number", "undefined", "null"}

\* the values the hook returns: the static input itself, a key, or undefined
StaticValue(size) == [kind |-> size.kind, name |-> size.s]
KeyValue(n) == [kind |-> "key", name |-> n]
UndefinedValue == [kind |-> "undefined", name |-> 0]

\* for (const key in query) if (query[key]) return key: the first key, in the
\* enumeration order of the result, whose value is truthy; a boolean has no
\* enumerable key
RECURSIVE ForInFirstTruthy(_, _)
ForInFirstTruthy(m, found) ==
  IF m = <<>> THEN found
  ELSE IF Head(m).val THEN KeyValue(Head(m).name)
  ELSE ForInFirstTruthy(Tail(m), found)

\* useBreakpointValue(size), where obtained is what useMediaQuery(size)
\* returned to this render
BreakpointValue(size, obtained) ==
  IF size.kind \in StaticKinds THEN StaticValue(size)
  ELSE ForInFirstTruthy(obtained.m, UndefinedValue)

BreakpointNext ==
  \/ \E q \in BreakpointSizes : Mount(q)
  \/ \E q \in BreakpointSizes :
       \E sameObject \in (IF q = query THEN BOOLEAN ELSE {FALSE}) : Render(q, sameObject)
  \/ RunEffect
  \/ \E res \in [Conds -> {"match", "nomatch"}] : Resize(res)
  \/ Unmount

\* a component using useBreakpointValue, rendered with sizes that may change
SpecBreakpoint == MediaInit /\ [][BreakpointNext]_vars

\* name n has a true value in an evaluation result
TrueIn(r, n) == \E k \in 1..Len(r.m) : r.m[k].name = n /\ r.m[k].val

\* C20: for the mapping given to the latest render the hook's value is
\* undefined exactly when no condition is true in the evaluation result that
\* render obtained, and otherwise it is a key of the mapping that is true in
\* that result and comes first, in the mapping's enumeration order, among the
\* keys that are.
C20_FirstTrueKeyOfTheMapping ==
  (mounted /\ query.kind = "mapping")
    => LET v == BreakpointValue(query, rendered)
       IN IF v.kind = "undefined"
          THEN \A k \in 1..Len(rendered.m) : ~rendered.m[k].val
          ELSE \E k \in 1..Len(query.m) :
                 /\ query.m[k].name = v.name
                 /\ TrueIn(rendered, v.name)
                 /\ \A j \in 1..(k - 1) : ~TrueIn(rendered, query.m[j].name)

\* C22: a render of useBreakpointValue with a static input (a string, a
\* number, undefined or null) raises no error and returns that input,
\* whatever the environment.
C22_StaticInputReturnedUnchanged ==
  (query.kind \in StaticKinds /\ (mounted \/ rendered = RenderThrew))
    => /\ rendered # RenderThrew
       /\ BreakpointValue(query, rendered) = StaticValue(query)
====
